---- MODULE Spec2Model ----
(***************************************************************************)
(* Portfolio rebalancing calculator (backend/calculator.py).               *)
(*                                                                         *)
(* calculate_rebalance and calculate_auto_contribution compute over        *)
(* decimal.Decimal values in the default context: every arithmetic result  *)
(* is rounded to 28 significant digits, ties to even.  The model keeps     *)
(* that arithmetic: a Decimal is a sign, a coefficient and an exponent,    *)
(* the coefficient being a little-endian sequence of base-10^4 limbs.      *)
(***************************************************************************)
EXTENDS Integers, Sequences, FiniteSets, TLC

(***************************************************************************)
(* Bounds of the model's inputs.                                           *)
(***************************************************************************)
MaxAssets == 3
MaxTarget == 3
MaxCents == 1
MaxContribution == 1
\* the largest factor the target weights are rescaled by
MaxScale == 3
\* the largest shortfall, in hundredths, below the automatic contribution
MaxShortfall == 3

(***************************************************************************)
(* decimal.getcontext().prec, the precision every Decimal result is        *)
(* rounded to.                                                             *)
(***************************************************************************)
Prec == 28

(***************************************************************************)
(* Natural numbers of arbitrary size: <<>> is 0, limb 1 is the lowest.     *)
(***************************************************************************)
Base == 10000
LimbDigits == 4

Max(a, b) == IF a >= b THEN a ELSE b
Min(a, b) == IF a <= b THEN a ELSE b

RECURSIVE Pow10(_)
Pow10(k) == IF k = 0 THEN 1 ELSE 10 * Pow10(k - 1)

RECURSIVE BTrim(_)
BTrim(a) ==
    IF a = <<>> THEN <<>>
    ELSE IF a[Len(a)] = 0 THEN BTrim(SubSeq(a, 1, Len(a) - 1))
    ELSE a

RECURSIVE BFromNat(_)
BFromNat(n) == IF n = 0 THEN <<>> ELSE <<n % Base>> \o BFromNat(n \div Base)

Limb(a, i) == IF i <= Len(a) THEN a[i] ELSE 0

RECURSIVE BCmpFrom(_, _, _)
BCmpFrom(a, b, i) ==
    IF i = 0 THEN 0
    ELSE IF a[i] > b[i] THEN 1
    ELSE IF a[i] < b[i] THEN -1
    ELSE BCmpFrom(a, b, i - 1)

\* -1, 0 or 1 as a < b, a = b or a > b
BCmp(a, b) ==
    IF Len(a) > Len(b) THEN 1
    ELSE IF Len(a) < Len(b) THEN -1
    ELSE BCmpFrom(a, b, Len(a))

RECURSIVE BAddFrom(_, _, _, _)
BAddFrom(a, b, i, carry) ==
    IF i > Len(a) /\ i > Len(b)
    THEN IF carry = 0 THEN <<>> ELSE <<carry>>
    ELSE LET s == Limb(a, i) + Limb(b, i) + carry
         IN  <<s % Base>> \o BAddFrom(a, b, i + 1, s \div Base)

BAdd(a, b) == BAddFrom(a, b, 1, 0)

RECURSIVE BSubFrom(_, _, _, _)
BSubFrom(a, b, i, borrow) ==
    IF i > Len(a) THEN <<>>
    ELSE LET d == a[i] - Limb(b, i) - borrow
         IN  IF d < 0 THEN <<d + Base>> \o BSubFrom(a, b, i + 1, 1)
             ELSE <<d>> \o BSubFrom(a, b, i + 1, 0)

\* a - b, for a >= b
BSub(a, b) == BTrim(BSubFrom(a, b, 1, 0))

RECURSIVE BMulSmallFrom(_, _, _, _)
BMulSmallFrom(a, k, i, carry) ==
    IF i > Len(a) THEN BFromNat(carry)
    ELSE LET p == a[i] * k + carry
         IN  <<p % Base>> \o BMulSmallFrom(a, k, i + 1, p \div Base)

\* a * k, for 0 <= k <= 10^5
BMulSmall(a, k) == IF k = 0 THEN <<>> ELSE BMulSmallFrom(a, k, 1, 0)

RECURSIVE BConv(_, _, _, _)
BConv(a, b, k, i) ==
    IF i > Len(a) \/ i > k THEN 0
    ELSE (IF k + 1 - i <= Len(b) THEN a[i] * b[k + 1 - i] ELSE 0)
         + BConv(a, b, k, i + 1)

RECURSIVE BMulFrom(_, _, _, _)
BMulFrom(a, b, k, carry) ==
    IF k > Len(a) + Len(b) THEN BFromNat(carry)
    ELSE LET lo == Max(1, k + 1 - Len(b))
             s  == BConv(a, b, k, lo)
             t  == s + carry
         IN  <<t % Base>> \o BMulFrom(a, b, k + 1, t \div Base)

BMul(a, b) ==
    IF a = <<>> \/ b = <<>> THEN <<>> ELSE BTrim(BMulFrom(a, b, 1, 0))

RECURSIVE BDivSmallFrom(_, _, _, _)
BDivSmallFrom(a, k, i, rem) ==
    IF i = 0 THEN [q |-> <<>>, r |-> rem]
    ELSE LET cur  == rem * Base + a[i]
             rest == BDivSmallFrom(a, k, i - 1, cur % k)
         IN  [q |-> rest.q \o <<cur \div k>>, r |-> rest.r]

BTrimQuotient(d) == [q |-> BTrim(d.q), r |-> d.r]

\* quotient and remainder of a by k, for 0 < k <= 10^5
BDivSmall(a, k) == BTrimQuotient(BDivSmallFrom(a, k, Len(a), 0))

Zeros(n) == [i \in 1..n |-> 0]

\* a * 10^k
BShift(a, k) ==
    IF a = <<>> THEN <<>>
    ELSE Zeros(k \div LimbDigits) \o BMulSmall(a, Pow10(k % LimbDigits))

BPow10(k) == BShift(<<1>>, k)

\* the limbs below the cut as the low part of the remainder
BJoin(low, d) == [q |-> d.q, r |-> BTrim(low \o BFromNat(d.r))]

\* a cut after n limbs, the rest divided by m
BDivAt(a, n, m) ==
    BJoin(SubSeq(a, 1, n), BDivSmall(SubSeq(a, n + 1, Len(a)), m))

\* quotient and remainder (both natural numbers) of a by 10^k
BDivPow10(a, k) ==
    BDivAt(a, Min(k \div LimbDigits, Len(a)), Pow10(k % LimbDigits))

SmallDigits(n) ==
    IF n = 0 THEN 0 ELSE IF n < 10 THEN 1 ELSE IF n < 100 THEN 2
    ELSE IF n < 1000 THEN 3 ELSE IF n < 10000 THEN 4
    ELSE IF n < 100000 THEN 5 ELSE 6

\* number of decimal digits of a (0 for 0)
BDigits(a) ==
    IF a = <<>> THEN 0
    ELSE LimbDigits * (Len(a) - 1) + SmallDigits(a[Len(a)])

\* a as an integer, for a < 2^31
BToNat(a) == Limb(a, 1) + Base * Limb(a, 2) + Base * Base * Limb(a, 3)

BIsOdd(a) == Limb(a, 1) % 2 = 1

(***************************************************************************)
(* decimal.Decimal: the value (IF neg THEN -1 ELSE 1) * c * 10^e.          *)
(***************************************************************************)
Dec(neg, c, e) == [neg |-> neg /\ c # <<>>, c |-> c, e |-> e]

\* Decimal(n) for an integer n
DInt(n) == Dec(n < 0, BFromNat(IF n < 0 THEN -n ELSE n), 0)

\* Decimal of n hundredths, as Decimal("0.07")
DCents(n) == Dec(n < 0, BFromNat(IF n < 0 THEN -n ELSE n), -2)

DZero == DInt(0)

DIsZero(x) == x.c = <<>>
DIsNeg(x) == x.neg
DNeg(x) == Dec(~x.neg, x.c, x.e)
DAbs(x) == Dec(FALSE, x.c, x.e)

\* twice the remainder r against 10^k: -1, 0 or 1
HalfCmp(r, k) == BCmp(BMulSmall(r, 2), BPow10(k))

BInc(q, up) == IF up THEN BAdd(q, <<1>>) ELSE q

\* the quotient d.q rounded on its remainder, ties to even; h is the
\* remainder against one half
HalfEven(d, h) == BInc(d.q, h = 1 \/ (h = 0 /\ BIsOdd(d.q)))

HalfEvenOf(d, k) == HalfEven(d, HalfCmp(d.r, k))

\* rounding 99...9 up gives one digit too many: the last digit, a 0, goes
DCarry(neg, q, e) ==
    IF BDigits(q) > Prec THEN Dec(neg, BDivSmall(q, 10).q, e + 1)
    ELSE Dec(neg, q, e)

\* c * 10^e with its last k digits rounded away
DRound(neg, c, e, k) ==
    IF k <= 0 THEN Dec(neg, c, e)
    ELSE DCarry(neg, HalfEvenOf(BDivPow10(c, k), k), e + k)

\* Context rounding (ROUND_HALF_EVEN) of c * 10^e to Prec significant digits
DFix(neg, c, e) == DRound(neg, c, e, BDigits(c) - Prec)

DFixOf(x) == DFix(x.neg, x.c, x.e)

\* the coefficient of x at exponent e, for e <= x.e
CoefAt(x, e) == BShift(x.c, x.e - e)

Sign(xneg, yneg, m) ==
    IF xneg /\ ~yneg THEN -1
    ELSE IF ~xneg /\ yneg THEN 1
    ELSE IF xneg THEN -m ELSE m

DCmpAt(x, y, e) == Sign(x.neg, y.neg, BCmp(CoefAt(x, e), CoefAt(y, e)))

\* -1, 0 or 1 as x < y, x = y or x > y
DCmp(x, y) == DCmpAt(x, y, Min(x.e, y.e))

DLt(x, y) == DCmp(x, y) = -1
DLe(x, y) == DCmp(x, y) # 1
DEq(x, y) == DCmp(x, y) = 0

\* the exact sum of two signed coefficients at the exponent e
SignedSum(xneg, a, yneg, b, e) ==
    IF xneg = yneg THEN Dec(xneg, BAdd(a, b), e)
    ELSE IF BCmp(a, b) >= 0 THEN Dec(xneg, BSub(a, b), e)
    ELSE Dec(yneg, BSub(b, a), e)

DAddAt(x, y, e) ==
    DFixOf(SignedSum(x.neg, CoefAt(x, e), y.neg, CoefAt(y, e), e))

\* Decimal.__add__
DAdd(x, y) == DAddAt(x, y, Min(x.e, y.e))

\* Decimal.__sub__
DSub(x, y) == DAdd(x, DNeg(y))

\* Decimal.__mul__
DMul(x, y) == DFix(x.neg # y.neg, BMul(x.c, y.c), x.e + y.e)

RECURSIVE StripZeros(_, _, _, _)
StripZeros(neg, c, e, ideal) ==
    IF e < ideal /\ Limb(c, 1) % 10 = 0
    THEN StripZeros(neg, BDivSmall(c, 10).q, e + 1, ideal)
    ELSE Dec(neg, c, e)

\* the quotient d at exponent e as a Decimal: an inexact one keeps a sticky
\* last digit for the rounding, an exact one sheds trailing zeros down to
\* the ideal exponent
DQuotient(neg, d, e, ideal) ==
    DFixOf(IF d.r # 0 THEN Dec(neg, BInc(d.q, Limb(d.q, 1) % 5 = 0), e)
           ELSE StripZeros(neg, d.q, e, ideal))

DDivShifted(x, y, k, shift) ==
    DQuotient(x.neg # y.neg, BDivSmall(BShift(x.c, shift), k),
              x.e - y.e - shift, x.e - y.e)

DDivBy(x, y, k) ==
    DDivShifted(x, y, k, Max(0, SmallDigits(k) - BDigits(x.c) + Prec + 1))

\* Decimal.__truediv__, for a divisor y # 0 whose coefficient is below 10^5
DDiv(x, y) ==
    IF DIsZero(x) THEN Dec(FALSE, <<>>, x.e - y.e)
    ELSE DDivBy(x, y, BToNat(y.c))

\* the quotient d.q of a coefficient by 10^k, rounded half-up, in hundredths
HalfUp(neg, d, k) == Dec(neg, BInc(d.q, HalfCmp(d.r, k) >= 0), -2)

\* x.quantize(Decimal("0.01"), rounding=ROUND_HALF_UP)
Quantize(x) ==
    IF x.e >= -2 THEN Dec(x.neg, CoefAt(x, -2), -2)
    ELSE HalfUp(x.neg, BDivPow10(x.c, -2 - x.e), -2 - x.e)

\* the number of hundredths of a Decimal that is a whole number of them
Cents(x) == (IF x.neg THEN -1 ELSE 1) * BToNat(CoefAt(x, -2))

\* x is a whole number of hundredths
IsWholeCents(x) == DEq(Quantize(x), x)

(***************************************************************************)
(* sum(...) of a sequence of Decimals, left to right from 0.               *)
(***************************************************************************)
RECURSIVE SumFrom(_, _, _)
SumFrom(xs, i, acc) ==
    IF i > Len(xs) THEN acc ELSE SumFrom(xs, i + 1, DAdd(acc, xs[i]))

Sum(xs) == SumFrom(xs, 1, DZero)

Field(as, f) == [i \in 1..Len(as) |-> as[i][f]]

(***************************************************************************)
(* AssetAllocation                                                         *)
(***************************************************************************)
AssetAllocation(name, target_pct, current_value, allow_sell) ==
    [name          |-> name,
     target_pct    |-> target_pct,
     current_value |-> current_value,
     allow_sell    |-> allow_sell,
     current_pct   |-> DZero,
     buy_sell      |-> DZero,
     final_value   |-> DZero,
     final_pct     |-> DZero]

\* (x / total * 100).quantize(0.01, ROUND_HALF_UP) if total > 0 else 0
Percentage(x, total) ==
    IF DLt(DZero, total)
    THEN Quantize(DMul(DDiv(x, total), DInt(100)))
    ELSE DZero

\* a faulty zero-target branch that forgets final_value
ZeroTarget_nofinal(as) ==
    [i \in 1..Len(as) |->
        [as[i] EXCEPT !.current_pct = DZero,
                      !.buy_sell    = DZero,
                      !.final_pct   = DZero]]

\* the branch of calculate_rebalance taken when total_target_pct == 0
ZeroTarget(as) ==
    [i \in 1..Len(as) |->
        [as[i] EXCEPT !.current_pct = DZero,
                      !.buy_sell    = DZero,
                      !.final_value = as[i].current_value,
                      !.final_pct   = DZero]]

\* the assets with current_pct computed
WithCurrentPct(as) ==
    LET total_current == Sum(Field(as, "current_value"))
    IN  [i \in 1..Len(as) |->
            [as[i] EXCEPT !.current_pct =
                Percentage(as[i].current_value, total_current)]]

\* a faulty liquidation that keeps the assets whose sale is not allowed
Liquidate_keeping(as) ==
    [i \in 1..Len(as) |->
        IF as[i].allow_sell
        THEN [as[i] EXCEPT !.buy_sell    = DNeg(as[i].current_value),
                           !.final_value = DZero,
                           !.final_pct   = DZero]
        ELSE [as[i] EXCEPT !.buy_sell    = DZero,
                           !.final_value = as[i].current_value,
                           !.final_pct   = DZero]]

\* the branch of calculate_rebalance taken when total_final <= 0
Liquidate(as) ==
    [i \in 1..Len(as) |->
        [as[i] EXCEPT !.buy_sell    = DNeg(as[i].current_value),
                      !.final_value = DZero,
                      !.final_pct   = DZero]]

\* Decimal division raises on a zero divisor (DivisionByZero, or
\* InvalidOperation for 0 / 0): the division of line 75, by total_target_pct
IdealRaises(as) == DIsZero(Sum(Field(as, "target_pct")))

\* faulty unconstrained amounts that take target_pct as a percentage
Ideal_percent(as, c) ==
    LET total_current == Sum(Field(as, "current_value"))
        total_final   == DAdd(total_current, c)
    IN  [i \in 1..Len(as) |->
            DSub(DMul(DDiv(as[i].target_pct, DInt(100)), total_final),
                 as[i].current_value)]

\* ideal_buy_sell: the unconstrained amounts
Ideal(as, c) ==
    LET total_current    == Sum(Field(as, "current_value"))
        total_target_pct == Sum(Field(as, "target_pct"))
        total_final      == DAdd(total_current, c)
    IN  [i \in 1..Len(as) |->
            DSub(DMul(DDiv(as[i].target_pct, total_target_pct), total_final),
                 as[i].current_value)]

(***************************************************************************)
(* _apply_constraints                                                      *)
(***************************************************************************)
\* a faulty clamping pass that forbids every sale, whatever allow_sell says
RECURSIVE ClampFrom_nosale(_, _, _, _, _)
ClampFrom_nosale(as, res, i, excess, constrained) ==
    IF i > Len(as)
    THEN [result |-> res, excess |-> excess, constrained |-> constrained]
    ELSE IF DLt(res[i], DZero)
    THEN ClampFrom_nosale(as, [res EXCEPT ![i] = DZero], i + 1,
                          DAdd(excess, res[i]), constrained \cup {i})
    ELSE ClampFrom_nosale(as, res, i + 1, excess, constrained)

\* the clamping pass of one round, over the assets i..Len(as) in order
RECURSIVE ClampFrom(_, _, _, _, _)
ClampFrom(as, res, i, excess, constrained) ==
    IF i > Len(as)
    THEN [result |-> res, excess |-> excess, constrained |-> constrained]
    ELSE IF ~as[i].allow_sell /\ DLt(res[i], DZero)
    THEN ClampFrom(as, [res EXCEPT ![i] = DZero], i + 1,
                   DAdd(excess, res[i]), constrained \cup {i})
    ELSE IF DLt(res[i], DNeg(as[i].current_value))
    THEN ClampFrom(as, [res EXCEPT ![i] = DNeg(as[i].current_value)], i + 1,
                   DAdd(excess, DAdd(res[i], as[i].current_value)),
                   constrained \cup {i})
    ELSE ClampFrom(as, res, i + 1, excess, constrained)

Clamp(as, res) == ClampFrom(as, res, 1, DZero, {})

RECURSIVE WeightFrom(_, _, _, _)
WeightFrom(as, constrained, i, acc) ==
    IF i > Len(as) THEN acc
    ELSE WeightFrom(as, constrained, i + 1,
                    IF i \in constrained THEN acc
                    ELSE DAdd(acc, as[i].target_pct))

UnconstrainedWeight(as, constrained) == WeightFrom(as, constrained, 1, DZero)

\* a faulty redistribution that gives every unclamped asset the whole excess
Redistribute_whole(as, res, excess, constrained) ==
    [i \in 1..Len(as) |->
        IF i \in constrained THEN res[i] ELSE DAdd(res[i], excess)]

\* the redistribution of excess over the assets not clamped in this round
Redistribute(as, res, excess, constrained) ==
    LET unconstrained_weight == UnconstrainedWeight(as, constrained)
    IN  [i \in 1..Len(as) |->
            IF i \in constrained THEN res[i]
            ELSE DAdd(res[i],
                      DMul(excess,
                           DDiv(as[i].target_pct, unconstrained_weight)))]

\* the division of line 164, by unconstrained_weight, runs once for every
\* asset outside the constrained set
RedistributeRaises(as, constrained) ==
    /\ \E i \in 1..Len(as) : i \notin constrained
    /\ DIsZero(UnconstrainedWeight(as, constrained))

\* a faulty iteration that does not stop when no unconstrained weight is
\* left
AfterClamp_unchecked(as, cl) ==
    IF DIsZero(cl.excess)
    THEN [result |-> cl.result, excess |-> cl.excess,
          constrained |-> cl.constrained, stop |-> "converged"]
    ELSE IF RedistributeRaises(as, cl.constrained)
    THEN [result |-> cl.result, excess |-> cl.excess,
          constrained |-> cl.constrained, stop |-> "raised"]
    ELSE [result |-> Redistribute(as, cl.result, cl.excess, cl.constrained),
          excess |-> cl.excess,
          constrained |-> cl.constrained, stop |-> "no"]

\* the rest of an iteration, after the clamping pass cl
AfterClamp(as, cl) ==
    IF DIsZero(cl.excess)
    THEN [result |-> cl.result, excess |-> cl.excess,
          constrained |-> cl.constrained, stop |-> "converged"]
    ELSE IF DIsZero(UnconstrainedWeight(as, cl.constrained))
    THEN [result |-> cl.result, excess |-> cl.excess,
          constrained |-> cl.constrained, stop |-> "all_constrained"]
    ELSE IF RedistributeRaises(as, cl.constrained)
    THEN [result |-> cl.result, excess |-> cl.excess,
          constrained |-> cl.constrained, stop |-> "raised"]
    ELSE [result |-> Redistribute(as, cl.result, cl.excess, cl.constrained),
          excess |-> cl.excess,
          constrained |-> cl.constrained, stop |-> "no"]

\* one iteration of the loop: the vector it leaves and how the loop goes on
Round(as, res) == AfterClamp(as, Clamp(as, res))

\* a faulty budget of three rounds for each asset
max_iterations_triple(as) == Len(as) * 3

max_iterations(as) == Len(as) * 2

RECURSIVE ApplyFrom(_, _, _)

\* the loop after the round r, the n-th
AfterRound(as, r, n) ==
    IF r.stop # "no" THEN r.result ELSE ApplyFrom(as, r.result, n)

\* the loop from its n-th round on
ApplyFrom(as, res, n) ==
    IF n = max_iterations(as) THEN res
    ELSE AfterRound(as, Round(as, res), n + 1)

_apply_constraints(as, ideal_buy_sell) == ApplyFrom(as, ideal_buy_sell, 0)

(***************************************************************************)
(* calculate_rebalance, after the constraints                              *)
(***************************************************************************)
\* a faulty application that forgets to quantize the solved amounts
ApplyAmounts_raw(as, buy_sell_amounts) ==
    [i \in 1..Len(as) |->
        [as[i] EXCEPT !.buy_sell    = buy_sell_amounts[i],
                      !.final_value = DAdd(as[i].current_value,
                                           buy_sell_amounts[i])]]

\* buy_sell and final_value from the solved amounts
ApplyAmounts(as, buy_sell_amounts) ==
    [i \in 1..Len(as) |->
        LET b == Quantize(buy_sell_amounts[i])
        IN  [as[i] EXCEPT !.buy_sell    = b,
                          !.final_value = DAdd(as[i].current_value, b)]]

\* a faulty search in which the last of equal amounts wins
RECURSIVE MaxIdxFrom_last(_, _, _, _)
MaxIdxFrom_last(as, i, max_idx, max_abs) ==
    IF i > Len(as) THEN max_idx
    ELSE IF DLe(max_abs, DAbs(as[i].buy_sell))
    THEN MaxIdxFrom_last(as, i + 1, i, DAbs(as[i].buy_sell))
    ELSE MaxIdxFrom_last(as, i + 1, max_idx, max_abs)

RECURSIVE MaxIdxFrom(_, _, _, _)
MaxIdxFrom(as, i, max_idx, max_abs) ==
    IF i > Len(as) THEN max_idx
    ELSE IF DLt(max_abs, DAbs(as[i].buy_sell))
    THEN MaxIdxFrom(as, i + 1, i, DAbs(as[i].buy_sell))
    ELSE MaxIdxFrom(as, i + 1, max_idx, max_abs)

\* the first asset with the largest abs(buy_sell)
MaxIdx(as) == MaxIdxFrom(as, 1, 1, DAbs(as[1].buy_sell))

\* a faulty difference that passes on nothing of a cent or more
RoundingDiff_subcent(as, c) ==
    IF DLt(DAbs(DSub(c, Sum(Field(as, "buy_sell")))), DCents(1))
    THEN DSub(c, Sum(Field(as, "buy_sell")))
    ELSE DZero

RoundingDiff(as, c) == DSub(c, Sum(Field(as, "buy_sell")))

\* rounding_diff added to the asset max_idx
AddRounding(as, max_idx, rounding_diff) ==
    IF ~DIsZero(rounding_diff)
    THEN [as EXCEPT ![max_idx].buy_sell =
                        DAdd(as[max_idx].buy_sell, rounding_diff),
                    ![max_idx].final_value =
                        DAdd(as[max_idx].final_value, rounding_diff)]
    ELSE as

\* a faulty rounding stage that leaves the difference unassigned
DistributeRounding_dropped(as, c) == as

DistributeRounding(as, c) ==
    AddRounding(as, MaxIdx(as), RoundingDiff(as, c))

FinalPercentages(as) ==
    LET total_final_actual == Sum(Field(as, "final_value"))
    IN  [i \in 1..Len(as) |->
            [as[i] EXCEPT !.final_pct =
                Percentage(as[i].final_value, total_final_actual)]]

\* the whole function
calculate_rebalance(as, c) ==
    IF as = <<>> THEN as
    ELSE IF DIsZero(Sum(Field(as, "target_pct"))) THEN ZeroTarget(as)
    ELSE IF DLe(DAdd(Sum(Field(as, "current_value")), c), DZero)
    THEN Liquidate(WithCurrentPct(as))
    ELSE FinalPercentages(
             DistributeRounding(
                 ApplyAmounts(WithCurrentPct(as),
                              _apply_constraints(as, Ideal(as, c))),
                 c))

(***************************************************************************)
(* calculate_auto_contribution                                             *)
(***************************************************************************)
\* a faulty requirement that forgets to take off the current total
RequiredContribution_gross(as, i) ==
    LET total_target_pct == Sum(Field(as, "target_pct"))
    IN  DDiv(DMul(as[i].current_value, total_target_pct), as[i].target_pct)

\* the division of line 196, by asset.target_pct
RequiredRaises(as, i) == DIsZero(as[i].target_pct)

\* the contribution at which asset i needs neither a buy nor a sell
RequiredContribution(as, i) ==
    LET total_current    == Sum(Field(as, "current_value"))
        total_target_pct == Sum(Field(as, "target_pct"))
    IN  DSub(DDiv(DMul(as[i].current_value, total_target_pct),
                  as[i].target_pct),
             total_current)

RECURSIVE MinContributionsFrom(_, _)
MinContributionsFrom(as, i) ==
    IF i > Len(as) THEN <<>>
    ELSE IF DLt(DZero, as[i].target_pct)
    THEN <<RequiredContribution(as, i)>> \o MinContributionsFrom(as, i + 1)
    ELSE MinContributionsFrom(as, i + 1)

\* a faulty maximum that keeps the smallest element
RECURSIVE MaxFrom_smallest(_, _, _)
MaxFrom_smallest(xs, i, best) ==
    IF i > Len(xs) THEN best
    ELSE MaxFrom_smallest(xs, i + 1, IF DLt(xs[i], best) THEN xs[i] ELSE best)

RECURSIVE MaxFrom(_, _, _)
MaxFrom(xs, i, best) ==
    IF i > Len(xs) THEN best
    ELSE MaxFrom(xs, i + 1, IF DLt(best, xs[i]) THEN xs[i] ELSE best)

\* calculate_auto_contribution raises: the list and its total target are
\* not empty and the division runs, for an asset that passed line 195, on a
\* zero divisor
AutoRaises(as) ==
    /\ as # <<>>
    /\ ~DIsZero(Sum(Field(as, "target_pct")))
    /\ \E i \in 1..Len(as) :
           DLt(DZero, as[i].target_pct) /\ RequiredRaises(as, i)

calculate_auto_contribution(as) ==
    IF as = <<>> THEN DZero
    ELSE IF DIsZero(Sum(Field(as, "target_pct"))) THEN DZero
    ELSE LET min_contributions == MinContributionsFrom(as, 1)
         IN  IF min_contributions = <<>> THEN DZero
             ELSE Quantize(MaxFrom(min_contributions, 2, min_contributions[1]))

(***************************************************************************)
(* The calls of one request.  The caller builds the asset records, may     *)
(* ask for the automatic contribution, and calls calculate_rebalance,      *)
(* which runs to its return.                                               *)
(***************************************************************************)
VARIABLES
    assets,               \* the list of AssetAllocation
    contribution,         \* the contribution of the call
    auto,                 \* <<calculate_auto_contribution(assets)>> once asked
    pc,                   \* the position in calculate_rebalance
    result,               \* _apply_constraints: result
    iteration,            \* _apply_constraints: rounds run
    constrained_indices,  \* _apply_constraints: the set of the last round
    excess,               \* _apply_constraints: the excess of the last round
    stop,                 \* _apply_constraints: how the loop was left
    clamped               \* the indices clamped in any round of the solve

vars == <<assets, contribution, auto, pc, result, iteration,
          constrained_indices, excess, stop, clamped>>

Targets == {DInt(t) : t \in 0..MaxTarget}
Values == {DCents(v) : v \in 0..MaxCents}
Contributions == {DCents(c) : c \in -MaxContribution..MaxContribution}

AssetLists ==
    UNION {[1..n -> Targets \X Values \X BOOLEAN] : n \in 0..MaxAssets}

Init ==
    /\ \E l \in AssetLists :
          assets = [i \in 1..Len(l) |->
                       AssetAllocation(i, l[i][1], l[i][2], l[i][3])]
    /\ contribution = DZero
    /\ auto = <<>>
    /\ pc = "idle"
    /\ result = <<>>
    /\ iteration = 0
    /\ constrained_indices = {}
    /\ excess = DZero
    /\ stop = "no"
    /\ clamped = {}

solver == <<result, iteration, constrained_indices, excess, stop, clamped>>

\* calculate_auto_contribution(assets)
AutoContribution ==
    /\ pc = "idle"
    /\ auto = <<>>
    /\ IF AutoRaises(assets)
       THEN pc' = "raised" /\ UNCHANGED auto
       ELSE auto' = <<calculate_auto_contribution(assets)>> /\ UNCHANGED pc
    /\ UNCHANGED <<assets, contribution, solver>>

\* calculate_rebalance(assets, c), up to the call of _apply_constraints
Call(c) ==
    /\ pc = "idle"
    /\ contribution' = c
    /\ IF assets = <<>>
       THEN /\ pc' = "done"
            /\ UNCHANGED <<assets, result>>
       ELSE IF DIsZero(Sum(Field(assets, "target_pct")))
       THEN /\ assets' = ZeroTarget(assets)
            /\ pc' = "done"
            /\ UNCHANGED result
       ELSE IF DLe(DAdd(Sum(Field(assets, "current_value")), c), DZero)
       THEN /\ assets' = Liquidate(WithCurrentPct(assets))
            /\ pc' = "done"
            /\ UNCHANGED result
       ELSE IF IdealRaises(assets)
       THEN /\ assets' = WithCurrentPct(assets)
            /\ pc' = "raised"
            /\ UNCHANGED result
       ELSE /\ assets' = WithCurrentPct(assets)
            /\ result' = Ideal(assets, c)
            /\ pc' = "constraints"
    /\ UNCHANGED <<auto, iteration, constrained_indices, excess, stop, clamped>>

CallRequested == auto = <<>> /\ \E c \in Contributions : Call(c)

CallAuto == auto # <<>> /\ Call(auto[1])

\* one iteration of the loop of _apply_constraints
ConstraintRound ==
    /\ pc = "constraints"
    /\ \E r \in {Round(assets, result)} :
           /\ result' = r.result
           /\ excess' = r.excess
           /\ constrained_indices' = r.constrained
           /\ clamped' = clamped \cup r.constrained
           /\ iteration' = iteration + 1
           /\ IF r.stop = "raised"
              THEN stop' = r.stop /\ pc' = "raised"
              ELSE IF r.stop # "no"
              THEN stop' = r.stop /\ pc' = "apply"
              ELSE IF iteration + 1 = max_iterations(assets)
              THEN stop' = "budget" /\ pc' = "apply"
              ELSE stop' = "no" /\ pc' = "constraints"
    /\ UNCHANGED <<assets, contribution, auto>>

\* calculate_rebalance: quantize the amounts
Apply ==
    /\ pc = "apply"
    /\ assets' = ApplyAmounts(assets, result)
    /\ pc' = "rounding"
    /\ UNCHANGED <<contribution, auto, solver>>

\* calculate_rebalance: the rounding difference
Rounding ==
    /\ pc = "rounding"
    /\ assets' = DistributeRounding(assets, contribution)
    /\ pc' = "percentages"
    /\ UNCHANGED <<contribution, auto, solver>>

\* calculate_rebalance: the final percentages and the return
Percentages ==
    /\ pc = "percentages"
    /\ assets' = FinalPercentages(assets)
    /\ pc' = "done"
    /\ UNCHANGED <<contribution, auto, solver>>

Next ==
    \/ AutoContribution
    \/ CallRequested
    \/ CallAuto
    \/ ConstraintRound
    \/ Apply
    \/ Rounding
    \/ Percentages

Spec == Init /\ [][Next]_vars

\* A call in progress moves on: its position or its count of rounds changes.
\* Every action of a call is total on its position (its only guard is pc),
\* so this is enabled exactly while a call is in progress, and under Next
\* such a step is one of ConstraintRound, Apply, Rounding and Percentages.
Advance ==
    /\ pc \in {"constraints", "apply", "rounding", "percentages"}
    /\ pc' \in {"constraints", "apply", "rounding", "percentages", "done",
                "raised"}
    /\ iteration' \in {iteration, iteration + 1}

\* calculate_rebalance is straight-line code around the loop of
\* _apply_constraints: nothing suspends a call that has begun
FairSpec == Spec /\ WF_<<pc, iteration>>(Advance)

(***************************************************************************)
(* Vocabulary of the properties.                                           *)
(***************************************************************************)
Idx == 1..Len(assets)

\* the records as the caller built them
Inputs ==
    [i \in Idx |-> AssetAllocation(assets[i].name, assets[i].target_pct,
                                   assets[i].current_value,
                                   assets[i].allow_sell)]

TotalTargetPct == Sum(Field(assets, "target_pct"))
TotalCurrent == Sum(Field(assets, "current_value"))
TotalFinal(c) == DAdd(TotalCurrent, c)

Returned == pc = "done"

\* calculate_auto_contribution has just returned
AutoReturned == pc = "idle" /\ auto # <<>>

\* the call went through the constraint solver and the rounding
Solved == pc = "done" /\ iteration > 0

\* (target_pct_i / sum(target_pct)) * (sum(current_value) + c)
TargetShare(i, c) ==
    DMul(DDiv(assets[i].target_pct, TotalTargetPct), TotalFinal(c))

\* the unconstrained ideal delta of asset i under the contribution c
UnconstrainedDelta(i, c) == DSub(TargetShare(i, c), assets[i].current_value)

\* whole numbers read off the Decimals of the inputs
TargetOf(i) == Cents(assets[i].target_pct) \div 100
ValueOf(i) == Cents(assets[i].current_value)

RECURSIVE IntSum(_, _)
IntSum(f(_), n) == IF n = 0 THEN 0 ELSE f(n) + IntSum(f, n - 1)

TargetSum == IntSum(TargetOf, Len(assets))
ValueSum == IntSum(ValueOf, Len(assets))

\* num / den rounded to a whole number, ties away from zero (ROUND_HALF_UP)
RoundHalfUp(num, den) ==
    LET a == IF num < 0 THEN -num ELSE num
        q == (2 * a + den) \div (2 * den)
    IN  IF num < 0 THEN -q ELSE q

(***************************************************************************)
(* C1  Conservation.                                                       *)
(***************************************************************************)
Conserved ==
    /\ DEq(Sum(Field(assets, "buy_sell")), contribution)
    /\ DEq(Sum(Field(assets, "final_value")), TotalFinal(contribution))

\* C1 as claimed: for every asset list and every contribution with
\* sum(current_value) + contribution > 0, after calculate_rebalance returns
\* sum(buy_sell) == contribution and
\* sum(final_value) == sum(current_value) + contribution.
C1_ConservationAsClaimed ==
    (Returned /\ DLt(DZero, TotalFinal(contribution))) => Conserved

\* C1 amended: the same for every asset list whose target weights do not
\* sum to zero (the zero-target branch and the empty list leave every
\* buy_sell at 0).
C1_Conservation ==
    (Returned /\ ~DIsZero(TotalTargetPct)
              /\ DLt(DZero, TotalFinal(contribution))) => Conserved

\* a call that returned after the solver left excess undistributed
C1_Witness ==
    /\ Returned
    /\ stop = "all_constrained"
    /\ ~DIsZero(excess)
    /\ DLt(DZero, TotalFinal(contribution))

(***************************************************************************)
(* C2  No-sell invariant.                                                  *)
(***************************************************************************)
\* every asset ended the solve constrained: the loop stopped for want of
\* unconstrained weight, or every asset was clamped in the last round or in
\* some round
AllConstrained ==
    \/ stop = "all_constrained"
    \/ constrained_indices = Idx
    \/ clamped = Idx

\* C2: after calculate_rebalance returns from a solve, every asset with
\* allow_sell == false has buy_sell >= 0, unless every asset ended the
\* solve constrained.
C2_NoSell ==
    (Solved /\ ~AllConstrained) =>
        \A i \in Idx :
            ~assets[i].allow_sell => DLe(DZero, assets[i].buy_sell)

(***************************************************************************)
(* C3  Sell-cap invariant.                                                 *)
(***************************************************************************)
\* C3: after calculate_rebalance returns, every asset has
\* buy_sell >= -current_value and final_value >= 0.
C3_SellCap ==
    Returned =>
        \A i \in Idx :
            /\ DLe(DNeg(assets[i].current_value), assets[i].buy_sell)
            /\ DLe(DZero, assets[i].final_value)

(***************************************************************************)
(* C4  Liquidation.                                                        *)
(***************************************************************************)
Liquidated ==
    \A i \in Idx :
        /\ DIsZero(assets[i].final_value)
        /\ DIsZero(assets[i].final_pct)
        /\ DEq(assets[i].buy_sell, DNeg(assets[i].current_value))

\* C4 as claimed: whenever sum(current_value) + contribution <= 0, every
\* asset ends with final_value == 0, final_pct == 0 and
\* buy_sell == -current_value, whatever the flags and the target weights.
C4_LiquidationAsClaimed ==
    (Returned /\ DLe(TotalFinal(contribution), DZero)) => Liquidated

\* C4 amended: the same whenever, in addition, the target weights do not
\* sum to zero.
C4_Liquidation ==
    (Returned /\ ~DIsZero(TotalTargetPct)
              /\ DLe(TotalFinal(contribution), DZero)) => Liquidated

\* a liquidation that sold an asset whose sale is not allowed
C4_Witness ==
    /\ Returned
    /\ ~DIsZero(TotalTargetPct)
    /\ DLe(TotalFinal(contribution), DZero)
    /\ \E i \in Idx : ~assets[i].allow_sell /\ DIsNeg(assets[i].buy_sell)

(***************************************************************************)
(* C5  Auto-contribution soundness.                                        *)
(***************************************************************************)
\* C5: calculate_rebalance called with the contribution that
\* calculate_auto_contribution returned for the same assets yields
\* buy_sell >= 0 for every asset and buy_sell == 0 for at least one.
C5_AutoSound ==
    (Returned /\ auto # <<>> /\ assets # <<>>) =>
        /\ \A i \in Idx : DLe(DZero, assets[i].buy_sell)
        /\ \E i \in Idx : DIsZero(assets[i].buy_sell)

(***************************************************************************)
(* C6  Balanced fixed point.                                               *)
(***************************************************************************)
\* every current_value is its target share of the total
Balanced ==
    /\ TargetSum > 0
    /\ \A i \in Idx : ValueOf(i) * TargetSum = TargetOf(i) * ValueSum

\* C6: a balanced portfolio called with contribution == 0 comes back with
\* buy_sell == 0 and final_value == current_value for every asset, for any
\* allow_sell flags.
C6_BalancedFixedPoint ==
    (Returned /\ Balanced /\ DIsZero(contribution)) =>
        \A i \in Idx :
            /\ DIsZero(assets[i].buy_sell)
            /\ DEq(assets[i].final_value, assets[i].current_value)

\* a balanced portfolio whose inexact shares made a clamp fire
C6_Witness ==
    /\ Returned /\ Balanced /\ DIsZero(contribution)
    /\ clamped # {}
    /\ \E i \in Idx : ~assets[i].allow_sell
    /\ \E i \in Idx : assets[i].allow_sell

(***************************************************************************)
(* C7  Overweight asset that must not be sold.                             *)
(***************************************************************************)
RECURSIVE SumOthers(_, _)
SumOthers(i, n) ==
    IF n = 0 THEN DZero
    ELSE IF n = i THEN SumOthers(i, n - 1)
    ELSE DAdd(SumOthers(i, n - 1), assets[n].buy_sell)

\* C7: when an asset with allow_sell == false is overweight and
\* contribution >= 0, it gets buy_sell == 0 and the other assets take the
\* whole contribution: their buy_sell sum to the contribution.  (That the
\* others all buy is left out: an asset that allows selling is sold by
\* design when it is overweight.)
C7_OverweightKept ==
    (Returned /\ ~DIsZero(TotalTargetPct) /\ DLe(DZero, contribution)) =>
        \A i \in Idx :
            (~assets[i].allow_sell
                /\ DLt(UnconstrainedDelta(i, contribution), DZero)) =>
            /\ DIsZero(assets[i].buy_sell)
            /\ DEq(SumOthers(i, Len(assets)), contribution)

(***************************************************************************)
(* C8  Unconstrained allocation.                                           *)
(***************************************************************************)
AllSellable == \A i \in Idx : assets[i].allow_sell

Unconstrained ==
    /\ Returned
    /\ AllSellable
    /\ ~DIsZero(TotalTargetPct)
    /\ DLt(DZero, TotalFinal(contribution))

\* the inputs with every target weight multiplied by k
Scaled(k) ==
    [i \in Idx |-> [Inputs[i] EXCEPT !.target_pct = DMul(@, DInt(k))]]

SameResult(as, bs) ==
    \A i \in Idx :
        /\ DEq(as[i].buy_sell, bs[i].buy_sell)
        /\ DEq(as[i].final_value, bs[i].final_value)
        /\ DEq(as[i].current_pct, bs[i].current_pct)
        /\ DEq(as[i].final_pct, bs[i].final_pct)

ScaleInvariant ==
    \A k \in 2..MaxScale :
        \A scaled \in {calculate_rebalance(Scaled(k), contribution)} :
            SameResult(assets, scaled)

\* the unconstrained deltas rounded to hundredths
RoundedDeltas ==
    [i \in Idx |-> Quantize(UnconstrainedDelta(i, contribution))]

\* contribution - sum(rounded deltas)
RoundedDiff == DSub(contribution, Sum(RoundedDeltas))

\* C8 as claimed: when every asset may be sold, final_value is the
\* normalized target share of the new total rounded to hundredths, no clamp
\* fires, and a common factor on the target weights changes nothing.
C8_UnconstrainedAsClaimed ==
    Unconstrained =>
        /\ \A i \in Idx :
               DEq(assets[i].final_value,
                   Quantize(TargetShare(i, contribution)))
        /\ clamped = {}
        /\ ScaleInvariant

\* C8 amended: final_value is current_value plus the unconstrained delta
\* rounded to hundredths, but for one asset, which also takes the rounding
\* difference contribution - sum(rounded deltas); no clamp fires, and a
\* common factor on the target weights changes nothing.
C8_Unconstrained ==
    Unconstrained =>
        /\ \E rounded \in {RoundedDeltas} : \E diff \in {RoundedDiff} :
              \E k \in Idx : \A i \in Idx :
                  \E delta \in {IF i = k THEN DAdd(rounded[i], diff)
                                 ELSE rounded[i]} :
                      /\ DEq(assets[i].buy_sell, delta)
                      /\ DEq(assets[i].final_value,
                             DAdd(assets[i].current_value, delta))
        /\ clamped = {}
        /\ ScaleInvariant

\* an unconstrained call with unequal weights, a sale and a rounding
\* difference
C8_Witness ==
    /\ Unconstrained
    /\ \E i, j \in Idx : ~DEq(assets[i].target_pct, assets[j].target_pct)
    /\ \E i \in Idx : DIsNeg(assets[i].buy_sell)
    /\ ~DIsZero(RoundedDiff)

(***************************************************************************)
(* C9  The value of calculate_auto_contribution.                           *)
(***************************************************************************)
\* for an asset with target_pct > 0, the contribution that brings it to
\* its target share, in hundredths, rounded
RequiredCents(i) ==
    RoundHalfUp(ValueOf(i) * TargetSum - ValueSum * TargetOf(i), TargetOf(i))

Weighted == {i \in Idx : TargetOf(i) > 0}

WithFlags(f) == [i \in Idx |-> [Inputs[i] EXCEPT !.allow_sell = f[i]]]

\* C9: calculate_auto_contribution returns the largest, over the assets
\* with target_pct > 0, of current_value * sum(target_pct) / target_pct
\* - sum(current_value), rounded half-up to hundredths; 0 for an empty
\* list or a zero total target; and the same whatever the allow_sell flags.
C9_AutoValue ==
    AutoReturned =>
        /\ IsWholeCents(auto[1])
        /\ TargetSum = 0 => DIsZero(auto[1])
        /\ TargetSum > 0 =>
              /\ \A i \in Weighted : RequiredCents(i) <= Cents(auto[1])
              /\ \E i \in Weighted : RequiredCents(i) = Cents(auto[1])
        /\ \A f \in [Idx -> BOOLEAN] :
              DEq(calculate_auto_contribution(WithFlags(f)), auto[1])

\* a negative tie: the largest requirement is minus half a hundredth
C9_Witness ==
    /\ AutoReturned
    /\ TargetSum > 0
    /\ Cents(auto[1]) = -1
    /\ \E i \in Weighted :
          2 * (ValueOf(i) * TargetSum - ValueSum * TargetOf(i)) = -TargetOf(i)
    /\ \E i, j \in Idx : assets[i].allow_sell /\ ~assets[j].allow_sell

(***************************************************************************)
(* C10  Minimality of the automatic contribution.                          *)
(***************************************************************************)
\* C10: with sum(target_pct) > 0, under any contribution at least one
\* hundredth below calculate_auto_contribution(assets) some asset's
\* unconstrained ideal delta is negative.
C10_AutoMinimal ==
    (AutoReturned /\ TargetSum > 0) =>
        \A k \in 1..MaxShortfall :
            \E i \in Idx :
                DLt(UnconstrainedDelta(i, DSub(auto[1], DCents(k))), DZero)

\* a positive automatic contribution over inexact shares
C10_Witness ==
    /\ AutoReturned
    /\ TargetSum = 3
    /\ DLt(DZero, auto[1])
    /\ \A i \in Idx : ValueOf(i) > 0

(***************************************************************************)
(* C11  Zero total target.                                                 *)
(***************************************************************************)
\* the solver has not run: no round, no vector, nothing clamped
SolverIdle ==
    /\ iteration = 0
    /\ result = <<>>
    /\ stop = "no"
    /\ clamped = {}
    /\ constrained_indices = {}
    /\ DIsZero(excess)

\* C11: when sum(target_pct) == 0, calculate_rebalance returns every asset
\* with current_pct == 0, buy_sell == 0, final_value == current_value and
\* final_pct == 0, for every contribution, and neither the constraint
\* solver nor the rounding stage has run (no buy_sell took the
\* contribution).
C11_ZeroTarget ==
    (Returned /\ DIsZero(TotalTargetPct)) =>
        /\ \A i \in Idx :
               /\ DIsZero(assets[i].current_pct)
               /\ DIsZero(assets[i].buy_sell)
               /\ DEq(assets[i].final_value, assets[i].current_value)
               /\ DIsZero(assets[i].final_pct)
        /\ SolverIdle

\* a zero-target call that withdraws all that is held
C11_Witness ==
    /\ Returned
    /\ DIsZero(TotalTargetPct)
    /\ DIsNeg(contribution)
    /\ DLt(DZero, TotalCurrent)
    /\ DLe(TotalFinal(contribution), DZero)

(***************************************************************************)
(* C12  No failure on degenerate input.                                    *)
(***************************************************************************)
\* C12: neither calculate_rebalance nor calculate_auto_contribution raises:
\* no division runs on a zero divisor.  The ideal amounts are computed only
\* over a nonzero total target weight, and a round redistributes only over
\* a nonzero unconstrained weight.
C12_NoFailure ==
    /\ pc # "raised"
    /\ pc = "constraints" => ~DIsZero(TotalTargetPct)
    /\ (pc = "constraints" /\ iteration > 0) =>
           ~DIsZero(UnconstrainedWeight(assets, constrained_indices))

\* a withdrawal from a portfolio whose only unclamped assets have weight 0:
\* the round found no unconstrained weight and the call returned
C12_Witness ==
    /\ Returned
    /\ stop = "all_constrained"
    /\ constrained_indices # Idx
    /\ DIsNeg(contribution)
    /\ \E i \in Idx : DIsZero(assets[i].current_value)

(***************************************************************************)
(* C13  Cent quantization.                                                 *)
(***************************************************************************)
WholeCentInputs ==
    /\ \A i \in Idx : IsWholeCents(assets[i].current_value)
    /\ IsWholeCents(contribution)

\* C13: when every current_value and the contribution are whole cents,
\* every buy_sell and every final_value that calculate_rebalance returns is
\* a whole number of cents, in every branch and after the rounding
\* difference has been assigned; after a solve both carry two decimal
\* places.
C13_WholeCents ==
    (Returned /\ WholeCentInputs) =>
        \A i \in Idx :
            /\ IsWholeCents(assets[i].buy_sell)
            /\ IsWholeCents(assets[i].final_value)
            /\ Solved => /\ assets[i].buy_sell.e = -2
                         /\ assets[i].final_value.e = -2

\* a solve that left amounts off the cent grid, one of them taking the
\* rounding difference as well
C13_Witness ==
    /\ Solved
    /\ WholeCentInputs
    /\ \E i \in Idx : ~IsWholeCents(result[i])
    /\ \E i \in Idx : ~DEq(assets[i].buy_sell, Quantize(result[i]))

(***************************************************************************)
(* C14  The constrained set across the rounds of a solve.                  *)
(***************************************************************************)
\* C14: in every round of _apply_constraints after the first, each asset
\* clamped in an earlier round of the solve (clamped) is again in the
\* constrained set of the round and leaves the round with the amount it
\* entered it with.
C14_Monotone ==
    [][(pc = "constraints" /\ pc' # "raised") =>
          \A i \in clamped :
              /\ i \in constrained_indices'
              /\ result'[i] = result[i]]_vars

(***************************************************************************)
(* C15  Rounds needed by the solver.                                       *)
(***************************************************************************)
\* the loop of _apply_constraints has just been left
LoopLeft == pc = "apply"

\* the proposed amount of asset i breaks its no-sell or its holdings limit
Violates(i) ==
    \/ ~assets[i].allow_sell /\ DIsNeg(result[i])
    \/ DLt(result[i], DNeg(assets[i].current_value))

\* C15: whenever _apply_constraints leaves its loop it does so through a
\* round with excess == 0 or through a round with no unconstrained weight,
\* after at most N rounds for N assets, and the vector it returns violates
\* no constraint.
C15_ConvergesInN ==
    LoopLeft =>
        /\ stop \in {"converged", "all_constrained"}
        /\ iteration <= Len(assets)
        /\ \A i \in Idx : ~Violates(i)

(***************************************************************************)
(* C16  The excess left when no unconstrained weight remains.              *)
(***************************************************************************)
\* the loop stopped on unconstrained_weight == 0 with excess left over
ExcessLeft == stop = "all_constrained" /\ ~DIsZero(excess)

\* the solved amounts rounded to hundredths
QuantizedResult == [i \in Idx |-> Quantize(result[i])]

\* contribution - sum(quantized solved amounts)
QuantizedDiff == DSub(contribution, Sum(QuantizedResult))

HalfCents(n) == Dec(FALSE, BFromNat(5 * n), -3)

\* C17: after a solve, rounding_diff = contribution - sum(quantized
\* buy_sell) is zero when no solved amount had to be rounded, its magnitude
\* is at most 0.005 * N, and no asset's buy_sell is further from its
\* solved amount than its own rounding and that difference together.
C17_RoundingOnly ==
    Solved =>
        \E diff \in {QuantizedDiff} :
            /\ (\A i \in Idx : IsWholeCents(result[i])) => DIsZero(diff)
            /\ DLe(DAbs(diff), HalfCents(Len(assets)))
            /\ \A i \in Idx :
                   DLe(DAbs(DSub(assets[i].buy_sell, result[i])),
                       HalfCents(Len(assets) + 1))

(***************************************************************************)
(* C18  The asset that takes the rounding difference.                      *)
(***************************************************************************)
\* asset i holds the quantized solved amount q[i] and d on top of it
Holds(i, q, d) ==
    /\ DEq(assets[i].buy_sell, DAdd(q[i], d))
    /\ DEq(assets[i].final_value,
           DAdd(DAdd(assets[i].current_value, q[i]), d))

\* k is the first index with the largest |q|
FirstLargest(k, q) ==
    /\ \A j \in Idx : DLe(DAbs(q[j]), DAbs(q[k]))
    /\ \A j \in 1..(k - 1) : DLt(DAbs(q[j]), DAbs(q[k]))

\* the whole of d on the first largest asset and nothing on the others
OnFirstLargest(q, d) ==
    \E k \in Idx :
        /\ FirstLargest(k, q)
        /\ \A i \in Idx : Holds(i, q, IF i = k THEN d ELSE DZero)

\* C18: after a solve with rounding_diff != 0 the whole difference is on
\* exactly one asset, the one with the largest |buy_sell| after
\* quantization and of these the one with the lowest index, in its buy_sell
\* and in its final_value; every other asset, and every asset when
\* rounding_diff == 0, holds its quantized solved amount.
C18_RoundingTarget ==
    Solved =>
        \E q \in {QuantizedResult} : \E diff \in {QuantizedDiff} :
            IF DIsZero(diff)
            THEN \A i \in Idx : Holds(i, q, DZero)
            ELSE OnFirstLargest(q, diff)

\* a difference taken by an asset that is not the first of the list, with a
\* later asset of the same quantized amount passed over
C18_Witness ==
    /\ Solved
    /\ ~DIsZero(QuantizedDiff)
    /\ \E k \in Idx : \E j \in Idx :
           /\ 1 < k /\ k < j
           /\ FirstLargest(k, QuantizedResult)
           /\ DEq(DAbs(Quantize(result[j])), DAbs(Quantize(result[k])))
           /\ ~DEq(assets[k].buy_sell, Quantize(result[k]))
           /\ DEq(assets[j].buy_sell, Quantize(result[j]))

(***************************************************************************)
(* C19  The redistribution of a round.                                     *)
(***************************************************************************)
\* a step that is a round of _apply_constraints ending in a redistribution
RedistributingRound ==
    /\ pc = "constraints"
    /\ iteration' = iteration + 1
    /\ stop' \in {"no", "budget"}

\* in that round a clamped asset ends on its limit and every other asset
\* gets excess * (target_pct / unconstrained_weight) on top of its amount
Proportional(unconstrained_weight) ==
    \A i \in Idx :
        IF i \in constrained_indices'
        THEN \/ DIsZero(result'[i])
             \/ DEq(result'[i], DNeg(assets[i].current_value))
        ELSE result'[i] =
                 DAdd(result[i],
                      DMul(excess',
                           DDiv(assets[i].target_pct, unconstrained_weight)))

\* what 28 digits can lose on amounts of the size of the portfolio
Tolerance ==
    DMul(Dec(FALSE, <<1>>, -25), DAdd(TotalCurrent, DAbs(contribution)))

Near(x, y) == DLe(DAbs(DSub(x, y)), Tolerance)

\* C19 as claimed: in every round that redistributes, each asset not
\* clamped in the round receives excess * (target_pct_i / sum of target_pct
\* over the assets not clamped in the round), and the sum of the proposed
\* amounts after the redistribution equals the sum before the clamps and
\* the contribution.
C19_SumAsClaimed ==
    [][RedistributingRound =>
          /\ Proportional(UnconstrainedWeight(assets, constrained_indices'))
          /\ DEq(Sum(result'), Sum(result))
          /\ DEq(Sum(result'), contribution)]_vars

\* C19 amended: the same shares, computed in 28-digit arithmetic, so that
\* the sum after the redistribution is within 10^-25 * (sum(current_value)
\* + |contribution|) of the sum before the clamps and of the contribution.
C19_Proportional ==
    [][RedistributingRound =>
          /\ Proportional(UnconstrainedWeight(assets, constrained_indices'))
          /\ Near(Sum(result'), Sum(result))
          /\ Near(Sum(result'), contribution)]_vars

\* after a redistribution of a cent or more over two assets of unequal
\* weight the amounts no longer sum to the contribution
C19_Witness ==
    /\ pc \in {"constraints", "apply"}
    /\ iteration > 0
    /\ stop \in {"no", "budget"}
    /\ DLe(excess, DCents(-1))
    /\ \E i \in Idx : \E j \in Idx :
           /\ i \notin constrained_indices /\ j \notin constrained_indices
           /\ DLt(DZero, assets[i].target_pct)
           /\ DLt(assets[i].target_pct, assets[j].target_pct)
    /\ ~DEq(Sum(result), contribution)
    /\ Near(Sum(result), contribution)

(***************************************************************************)
(* C20  Termination.                                                       *)
(***************************************************************************)
\* calculate_rebalance has been called and has not returned
Called == pc \notin {"idle", "done"}

\* C20: _apply_constraints never runs more than 2 * N rounds for a list of
\* N assets, and every call of calculate_rebalance that has begun returns.
C20_Terminates ==
    /\ [](iteration <= 2 * Len(assets))
    /\ Called ~> Returned

\* a call that returned after using up all 2 * N rounds
C20_Witness ==
    /\ Returned
    /\ stop = "budget"
    /\ iteration = 2 * Len(assets)
    /\ Len(assets) > 1

(***************************************************************************)
(* C21  The sign of the auto-contribution.                                 *)
(***************************************************************************)
\* C21: calculate_auto_contribution never returns a negative amount: for
\* every asset list with target_pct >= 0 and current_value >= 0, an asset
\* with target_pct == 0 and a positive current_value included, the amount
\* returned is >= 0.
C21_AutoNonNegative ==
    (AutoReturned /\ \A i \in Idx : /\ DLe(DZero, assets[i].target_pct)
                                    /\ DLe(DZero, assets[i].current_value)) =>
        DLe(DZero, auto[1])

====
